---------------------------- MODULE Spec2Model ----------------------------
(***************************************************************************)
(* A model of project3.py, the crop disease detection demo: the colour     *)
(* analyser (analyze_image), the prediction stage (predict_disease) and    *)
(* the /upload request handler (upload_file) run by concurrent request     *)
(* threads over one upload directory and one wall clock.                   *)
(*                                                                         *)
(* Three specifications share the variables:                               *)
(*   SpecAnalyze  analyze_image applied to each image of Images            *)
(*   SpecPredict  predict_disease, statement by statement                  *)
(*   Spec         upload_file, two request threads, the clock, the disk    *)
(***************************************************************************)
EXTENDS Integers, Sequences, FiniteSets, TLC

VARIABLES
    \* ---- analyze_image / predict_disease (one call) ----
    ppc,              \* position in predict_disease
    image,            \* what Image.open finds at image_path
    predicted_class,  \* analyze_image's return value, None before the call
    analysis_raised,  \* an exception left analyze_image
    confidence,       \* line 79
    top_predictions,  \* lines 82-96
    loop_i,           \* the for loop's i, line 90
    return_value,     \* predict_disease's return value, None before it returns
    \* ---- upload_file (request threads) ----
    pc,               \* each thread's position in upload_file
    req,              \* each thread's current request
    unique_filename,  \* line 131, None until computed
    sleep_until,      \* the tick at which time.sleep(1) of line 76 is over
    outcome,          \* what the request ended with: flash, response, result_data
    uploads,          \* the upload directory: stored name -> bytes
    now,              \* the wall clock, in ticks
    served,           \* the successful uploads so far
    nreq              \* requests received so far

pvars == <<ppc, image, predicted_class, analysis_raised, confidence,
           top_predictions, loop_i, return_value>>
hvars == <<pc, req, unique_filename, sleep_until, outcome, uploads, now,
           served, nreq>>
vars == <<ppc, image, predicted_class, analysis_raised, confidence,
          top_predictions, loop_i, return_value,
          pc, req, unique_filename, sleep_until, outcome, uploads, now,
          served, nreq>>

None == "None"

Range(s) == {s[i] : i \in 1..Len(s)}

Min(a, b) == IF a < b THEN a ELSE b

(***************************************************************************)
(* Python floats.  A float is a binary floating-point number with a        *)
(* MantDig-bit significand, every operation rounded to nearest, ties to    *)
(* even.  CPython's float has 53 bits; the model keeps the arithmetic and  *)
(* scales the significand to 5 bits, which rounds the decimal literals of  *)
(* the program the same way 53 bits do (the binary expansions of 0.1, 0.2, *)
(* 0.7 and 0.95 have period 4, and 53 = 5 mod 4): 0.7 rounds down, 0.2     *)
(* rounds up, 0.95 - 0.7 is exactly 0.25.  A float x is held as the        *)
(* integer x * Den.                                                        *)
(***************************************************************************)
MantDig == 5

RECURSIVE Pow2(_)
Pow2(n) == IF n <= 0 THEN 1 ELSE 2 * Pow2(n - 1)

\* Every float the program computes, and every exact product of two of
\* them, is a multiple of 1/Den.
Den == Pow2(2 * MantDig + 1)

\* The largest power of two p with m * p <= n, for n >= m > 0 (1 below that).
RECURSIVE TopPower(_, _, _)
TopPower(n, m, p) == IF m * 2 * p <= n THEN TopPower(n, m, 2 * p) ELSE p

\* n/m rounded to a multiple of ulp, the quotient q = n \div (m * ulp) given:
\* to nearest, ties to the even multiple.
RoundQuotient(n, m, ulp, q) ==
    IF \/ 2 * (n - q * m * ulp) > m * ulp
       \/ 2 * (n - q * m * ulp) = m * ulp /\ q % 2 = 1
    THEN (q + 1) * ulp
    ELSE q * ulp

RoundToUlp(n, m, ulp) == RoundQuotient(n, m, ulp, n \div (m * ulp))

\* The rational n/m (n >= 0, m > 0, in units of 1/Den) rounded to a float:
\* its unit in the last place is its leading power of two / 2^(MantDig - 1),
\* and no less than 1/Den.
RoundAbs(n, m) ==
    IF n = 0 THEN 0
    ELSE RoundToUlp(n, m, TopPower(n, m, 1) \div
                          Min(TopPower(n, m, 1), Pow2(MantDig - 1)))

Round(n, m) == IF n < 0 THEN 0 - RoundAbs(0 - n, m) ELSE RoundAbs(n, m)

\* A decimal literal num/den of the source text.
Literal(num, den) == Round(num * Den, den)

FAdd(x, y) == Round(x + y, 1)
FSub(x, y) == Round(x - y, 1)
FMul(x, y) == Round(x * y, Den)

\* random.random() returns k * 2^-MantDig for some k in 0 .. 2^MantDig - 1, so
\* a float in [0, 1).  The draws explored: DrawParts evenly spread values of
\* k from 0 on, and the largest one.
DrawParts == 4

RandomK == {(j * Pow2(MantDig)) \div DrawParts : j \in 0..(DrawParts - 1)}
           \cup {Pow2(MantDig) - 1}

RandomDraws == {k * (Den \div Pow2(MantDig)) : k \in RandomK}

\* random.uniform(a, b) is a + (b - a) * random.random().
uniform(a, b) == {FAdd(a, FMul(FSub(b, a), r)) : r \in RandomDraws}

\* random.randint(a, b): both ends included.
randint(a, b) == a..b

\* random.choice(seq); an empty seq raises IndexError (no value).
choice(seq) == Range(seq)


(***************************************************************************)
(* Module-level constants, lines 19-31.                                    *)
(***************************************************************************)
ALLOWED_EXTENSIONS ==
    { <<"p","n","g">>, <<"j","p","g">>, <<"j","p","e","g">>,
      <<"g","i","f">>, <<"b","m","p">> }

DISEASE_CLASSES ==
    0 :> "Healthy" @@ 1 :> "Early Blight" @@ 2 :> "Late Blight" @@
    3 :> "Powdery Mildew" @@ 4 :> "Leaf Spot" @@ 5 :> "Rust" @@
    6 :> "Mosaic Virus" @@ 7 :> "Bacterial Spot"

\* len(DISEASE_CLASSES)
len_DISEASE_CLASSES == Cardinality(DOMAIN DISEASE_CLASSES)

(***************************************************************************)
(* Images.  What is found at an image path: nothing ("missing"), bytes     *)
(* PIL cannot decode ("corrupt", "truncated"), or a decodable image, of    *)
(* which only the three channel means matter.  np.mean gives a float; the  *)
(* means used are integers, which a float holds exactly.                   *)
(***************************************************************************)
Undecodable(kind) == [kind |-> kind, red |-> 0, green |-> 0, blue |-> 0]
Rgb(r, g, b) == [kind |-> "rgb", red |-> r, green |-> g, blue |-> b]

\* Channel means on both sides of every threshold of lines 57-61.
Means == {0, 49, 50, 80, 99, 100, 150, 151, 180, 181, 200, 255}

Images == {Undecodable("missing"), Undecodable("corrupt"), Undecodable("truncated")}
          \cup {Rgb(r, g, b) : r \in Means, g \in Means, b \in Means}

(***************************************************************************)
(* analyze_image, lines 38-69.                                             *)
(***************************************************************************)
\* Variant of classify: the third rule tried first.
ClassifyNoOrder(avg_red, avg_green, avg_blue) ==
    IF avg_blue < 50 /\ avg_red > 180 THEN {2}
    ELSE IF avg_green > 150 /\ avg_red < 100 THEN {0}
    ELSE IF avg_red > 150 /\ avg_green < 100 THEN {1}
    ELSE choice(<<0, 3, 4, 5, 6, 7>>)

\* Lines 57-65: the threshold rules, in order; the set of values returned.
classify(avg_red, avg_green, avg_blue) ==
    IF avg_green > 150 /\ avg_red < 100 THEN {0}
    ELSE IF avg_red > 150 /\ avg_green < 100 THEN {1}
    ELSE IF avg_blue < 50 /\ avg_red > 180 THEN {2}
    ELSE choice(<<0, 3, 4, 5, 6, 7>>)

\* Lines 41-65, the try block: Image.open / convert raise on anything that is
\* not a decodable image; otherwise the means are classified.
analyze_try(img) ==
    IF img.kind = "rgb"
    THEN [exc |-> FALSE, vals |-> classify(img.red, img.green, img.blue)]
    ELSE [exc |-> TRUE, vals |-> {}]

\* Variant of analyze_image: randint(0, len(DISEASE_CLASSES)).
AnalyzeRandintOffByOne(img) ==
    LET body == analyze_try(img)
    IN  IF body.exc
        THEN [raised |-> FALSE, vals |-> randint(0, len_DISEASE_CLASSES)]
        ELSE [raised |-> FALSE, vals |-> body.vals]

\* Lines 67-69, the except clause: every Exception is swallowed and a random
\* class id returned.  raised: an exception leaves analyze_image.
analyze_image(img) ==
    LET body == analyze_try(img)
    IN  IF body.exc
        THEN [raised |-> FALSE, vals |-> randint(0, len_DISEASE_CLASSES - 1)]
        ELSE [raised |-> FALSE, vals |-> body.vals]

(***************************************************************************)
(* predict_disease, lines 71-106.                                          *)
(***************************************************************************)
\* The literals of lines 79 and 94.
ConfLo == Literal(7, 10)
ConfHi == Literal(95, 100)
AltLo == Literal(1, 10)
AltMargin == Literal(2, 10)

\* Variant of primary_confidence: random.uniform(0.2, 0.95).
PrimaryFromTooLow == uniform(Literal(2, 10), ConfHi)

\* Line 79.
primary_confidence == uniform(ConfLo, ConfHi)

\* Line 94: the interval the alternative's confidence is drawn from.
alt_interval(conf) == [lo |-> AltLo, hi |-> FSub(conf, AltMargin)]

\* Variant of alt_confidence: the margin forgotten.
AltAboveMargin(conf) == uniform(AltLo, conf)

alt_confidence(conf) == uniform(alt_interval(conf).lo, alt_interval(conf).hi)

\* Variant of other_classes: the primary class not filtered out.
AllClasses(cls) == [i \in 1..len_DISEASE_CLASSES |-> i - 1]

\* Line 89.
other_classes(cls) ==
    LET keep == {x \in DOMAIN DISEASE_CLASSES : x # cls}
        RECURSIVE Build(_)
        Build(x) == IF x >= len_DISEASE_CLASSES THEN <<>>
                    ELSE (IF x \in keep THEN <<x>> ELSE <<>>) \o Build(x + 1)
    IN  Build(0)

\* Line 90: the number of alternatives.
n_alternatives(cls) == Min(2, Len(other_classes(cls)))

\* Lines 82-86: the primary entry; DISEASE_CLASSES[predicted_class] raises
\* KeyError for a class id that is no key.
prediction(cls, conf) ==
    [disease |-> DISEASE_CLASSES[cls], confidence |-> conf, class_id |-> cls]

\* Lines 104-106.
failure == [success |-> FALSE, error |-> "error"]

PInit ==
    /\ ppc = "start"
    /\ predicted_class = None
    /\ analysis_raised = FALSE
    /\ confidence = None
    /\ top_predictions = <<>>
    /\ loop_i = 0
    /\ return_value = None

(***************************************************************************)
(* The upload handler's state before any request.                          *)
(***************************************************************************)
NumThreads == 2
Threads == 1..NumThreads

\* A thread that holds no request, no stored name, no outcome yet.
NoRequest ==
    [id |-> 0, method |-> "none", has_file |-> FALSE, filename |-> <<>>,
     content |-> Undecodable("missing")]
NoName == <<>>
NoOutcome ==
    [response |-> "none", category |-> "none", message |-> <<>>,
     image_path |-> <<>>, success |-> FALSE, class_id |-> 0 - 1]

HInit ==
    /\ pc = [t \in Threads |-> "idle"]
    /\ req = [t \in Threads |-> NoRequest]
    /\ unique_filename = [t \in Threads |-> NoName]
    /\ sleep_until = [t \in Threads |-> 0]
    /\ outcome = [t \in Threads |-> NoOutcome]
    /\ uploads = <<>>
    /\ now = 0
    /\ served = {}
    /\ nreq = 0

(***************************************************************************)
(* SpecAnalyze: analyze_image(image_path) for every image of Images.       *)
(***************************************************************************)
AnalyzeInit == PInit /\ HInit /\ image \in Images

Analyze ==
    /\ ppc = "start"
    /\ LET a == analyze_image(image)
       IN  IF a.raised
           THEN /\ analysis_raised' = TRUE
                /\ UNCHANGED predicted_class
           ELSE /\ \E v \in a.vals : predicted_class' = v
                /\ UNCHANGED analysis_raised
    /\ ppc' = "analyzed"
    /\ UNCHANGED <<image, confidence, top_predictions, loop_i, return_value>>
    /\ UNCHANGED hvars

SpecAnalyze == AnalyzeInit /\ [][Analyze]_vars

(***************************************************************************)
(* SpecPredict: predict_disease(image_path), one statement group at a      *)
(* time.  An exception anywhere in the try block (lines 74-102) is caught  *)
(* at line 104 and the failure value returned.                             *)
(***************************************************************************)
PredictImages ==
    { Undecodable("missing"), Rgb(50, 200, 80), Rgb(200, 50, 0),
      Rgb(100, 100, 100) }

PredictInit == PInit /\ HInit /\ image \in PredictImages

\* Line 78.
PAnalyze ==
    /\ ppc = "start"
    /\ LET a == analyze_image(image)
       IN  IF a.raised
           THEN /\ analysis_raised' = TRUE
                /\ return_value' = failure
                /\ ppc' = "returned"
                /\ UNCHANGED predicted_class
           ELSE /\ \E v \in a.vals : predicted_class' = v
                /\ ppc' = "analyzed"
                /\ UNCHANGED <<analysis_raised, return_value>>
    /\ UNCHANGED <<image, confidence, top_predictions, loop_i>>
    /\ UNCHANGED hvars

\* Lines 79-89.
PPrimary ==
    /\ ppc = "analyzed"
    /\ \E c \in primary_confidence :
          /\ confidence' = c
          /\ IF predicted_class \in DOMAIN DISEASE_CLASSES
             THEN /\ top_predictions' = <<prediction(predicted_class, c)>>
                  /\ ppc' = "loop"
                  /\ UNCHANGED return_value
             ELSE /\ return_value' = failure
                  /\ ppc' = "returned"
                  /\ UNCHANGED top_predictions
    /\ UNCHANGED <<image, predicted_class, analysis_raised, loop_i>>
    /\ UNCHANGED hvars

\* Lines 90-96, one iteration of the loop.
PAlternative ==
    /\ ppc = "loop"
    /\ loop_i < n_alternatives(predicted_class)
    /\ \E alt_class \in choice(other_classes(predicted_class)) :
       \E c \in alt_confidence(confidence) :
          IF alt_class \in DOMAIN DISEASE_CLASSES
          THEN /\ top_predictions' =
                      Append(top_predictions, prediction(alt_class, c))
               /\ loop_i' = loop_i + 1
               /\ UNCHANGED <<ppc, return_value>>
          ELSE /\ return_value' = failure
               /\ ppc' = "returned"
               /\ UNCHANGED <<top_predictions, loop_i>>
    /\ UNCHANGED <<image, predicted_class, analysis_raised, confidence>>
    /\ UNCHANGED hvars

\* Lines 98-102.
PReturn ==
    /\ ppc = "loop"
    /\ loop_i >= n_alternatives(predicted_class)
    /\ return_value' = [primary_prediction |-> top_predictions[1],
                        all_predictions |-> top_predictions,
                        success |-> TRUE]
    /\ ppc' = "returned"
    /\ UNCHANGED <<image, predicted_class, analysis_raised, confidence,
                   top_predictions, loop_i>>
    /\ UNCHANGED hvars

PredictNext == PAnalyze \/ PPrimary \/ PAlternative \/ PReturn

SpecPredict == PredictInit /\ [][PredictNext]_vars

(***************************************************************************)
(* Strings.  A filename is a sequence of one-character strings.            *)
(***************************************************************************)
\* str.lower() on the letters that occur in the filenames of the model.
LowerCase ==
    "A" :> "a" @@ "E" :> "e" @@ "G" :> "g" @@ "N" :> "n" @@ "P" :> "p" @@
    "X" :> "x"

lower(str) ==
    [i \in 1..Len(str) |->
        IF str[i] \in DOMAIN LowerCase THEN LowerCase[str[i]] ELSE str[i]]

\* The elements of str at the indices of keep, in order.
Pick(str, keep) ==
    LET RECURSIVE From(_)
        From(i) == IF i > Len(str) THEN <<>>
                   ELSE (IF i \in keep THEN <<str[i]>> ELSE <<>>) \o From(i + 1)
    IN  From(1)

\* str.rsplit('.', 1)[1]: what follows the last '.', for a str that has one.
rsplit_1(str) ==
    LET dots == {i \in 1..Len(str) : str[i] = "."}
        last == CHOOSE i \in dots : \A j \in dots : j <= i
    IN  SubSeq(str, last + 1, Len(str))

\* str.split('.')[1], what follows the first '.' up to the next one.
split_1(str) ==
    LET dots  == {i \in 1..Len(str) : str[i] = "."}
        first == CHOOSE i \in dots : \A j \in dots : i <= j
        rest  == {j \in dots : j > first}
        stop  == IF rest = {} THEN Len(str) + 1
                 ELSE CHOOSE i \in rest : \A j \in rest : i <= j
    IN  SubSeq(str, first + 1, stop - 1)

(***************************************************************************)
(* allowed_file, lines 35-36.                                              *)
(***************************************************************************)
\* Variant of allowed_file: filename.split('.')[1].
AllowedFileFirstDot(filename) ==
    /\ "." \in Range(filename)
    /\ lower(split_1(filename)) \in ALLOWED_EXTENSIONS

allowed_file(filename) ==
    /\ "." \in Range(filename)
    /\ lower(rsplit_1(filename)) \in ALLOWED_EXTENSIONS

(***************************************************************************)
(* werkzeug's secure_filename, called at line 129: path separators become  *)
(* spaces, the words are joined by "_", every character outside            *)
(* [A-Za-z0-9_.-] is dropped, and leading and trailing "." and "_" are     *)
(* stripped.                                                               *)
(***************************************************************************)
\* The characters of [A-Za-z0-9_.-] among those the model's filenames use.
SafeChars ==
    DOMAIN LowerCase
    \cup {"a", "b", "e", "f", "g", "i", "j", "m", "n", "p", "x"}
    \cup {"_", ".", "-"}

secure_filename(filename) ==
    LET spaced == [i \in 1..Len(filename) |->
                      IF filename[i] = "/" THEN " " ELSE filename[i]]
        \* "_".join(spaced.split())
        words      == {i \in 1..Len(spaced) : spaced[i] # " "}
        joints     == {i \in 1..Len(spaced) :
                          /\ spaced[i] = " "
                          /\ (i - 1) \in words
                          /\ \E j \in words : j > i}
        kept       == Pick(spaced, words \cup joints)
        joined     == [i \in 1..Len(kept) |->
                          IF kept[i] = " " THEN "_" ELSE kept[i]]
        ascii      == Pick(joined,
                           {i \in 1..Len(joined) : joined[i] \in SafeChars})
        inner      == {i \in 1..Len(ascii) : ascii[i] \notin {".", "_"}}
    IN  IF inner = {} THEN <<>>
        ELSE SubSeq(ascii,
                    CHOOSE i \in inner : \A j \in inner : i <= j,
                    CHOOSE i \in inner : \A j \in inner : j <= i)

(***************************************************************************)
(* The clock.  datetime.now() reads the wall clock, which advances in      *)
(* ticks; strftime('%Y%m%d_%H%M%S') keeps whole seconds only.              *)
(***************************************************************************)
TicksPerSecond == 2
MaxClock == 4

strftime(t) == t \div TicksPerSecond

\* Line 131: f"{timestamp}_{filename}".
make_unique_filename(timestamp, filename) == <<timestamp, "_">> \o filename

\* Variant of image_path_of: the path built from filename, not unique_filename.
ImagePathUnstamped(name) == <<"/static/uploads/">> \o SubSeq(name, 3, Len(name))

\* Line 146: f"/static/uploads/{unique_filename}".
image_path_of(name) == <<"/static/uploads/">> \o name

(***************************************************************************)
(* upload_file, lines 113-166, run by the request threads of the server.   *)
(***************************************************************************)
MaxRequests == 2

\* The filenames a client sends: '', a.png, a.PNG, a.exe, png, a., .gif,
\* /a.png, a.png.e
FileNames ==
    { <<>>,
      <<"a", ".", "p", "n", "g">>,
      <<"a", ".", "P", "N", "G">>,
      <<"a", ".", "e", "x", "e">>,
      <<"p", "n", "g">>,
      <<"a", ".">>,
      <<".", "g", "i", "f">>,
      <<"/", "a", ".", "p", "n", "g">>,
      <<"a", ".", "p", "n", "g", ".", "e">> }

\* The bytes a client sends: a green leaf, bytes that are no image.
Contents == {Rgb(50, 200, 80), Undecodable("corrupt")}

\* The POST requests: without a file part, or with one.
PostRequests ==
    {[method |-> "POST", has_file |-> FALSE, filename |-> <<>>,
      content |-> Undecodable("missing")]}
    \cup {[method |-> "POST", has_file |-> TRUE, filename |-> f, content |-> c] :
             f \in FileNames, c \in Contents}

Terminal == {"render_success", "render_error", "form"}

\* flash(message, category) and the response returned.
redirect(category, message) ==
    [response |-> "redirect", category |-> category, message |-> message,
     image_path |-> <<>>, success |-> FALSE, class_id |-> 0 - 1]

\* Variant of on_exception: no except clause, Flask answers 500.
ExceptionEscapes(e) ==
    [response |-> "500", category |-> "none", message |-> <<>>,
     image_path |-> <<>>, success |-> FALSE, class_id |-> 0 - 1]

\* Lines 159-161: the except clause of the handler.
on_exception(e) == redirect("error", <<"Error processing file: ", e>>)

\* Lines 145-154: result_data and the flash.  The display-only timestamp and
\* crop_type (lines 149-150) are not kept.
render_result(name, result) ==
    [response |-> "result.html", category |-> "success",
     message |-> <<"Analysis completed successfully!">>,
     image_path |-> image_path_of(name), success |-> result.success,
     class_id |-> result.class_id]

\* file.save(filepath): the bytes are written to the directory entry.
write_file(dir, name, bytes) ==
    [n \in DOMAIN dir \cup {name} |-> IF n = name THEN bytes ELSE dir[n]]

\* predict_disease as upload_file sees it (lines 142-144): success and the
\* primary class.  The try block fails only where DISEASE_CLASSES[...] raises
\* KeyError; analyze_image itself never lets an exception out.
predict_disease(img) ==
    LET a == analyze_image(img)
    IN  IF a.raised THEN {[success |-> FALSE, class_id |-> 0 - 1]}
        ELSE {IF v \in DOMAIN DISEASE_CLASSES
              THEN [success |-> TRUE, class_id |-> v]
              ELSE [success |-> FALSE, class_id |-> 0 - 1] : v \in a.vals}

\* A GET: line 166 renders the empty form.
Get(t) ==
    /\ pc[t] \in Terminal \cup {"idle"}
    /\ nreq < MaxRequests
    /\ nreq' = nreq + 1
    /\ req' = [req EXCEPT ![t] = [NoRequest EXCEPT !.id = nreq + 1,
                                                   !.method = "GET"]]
    /\ pc' = [pc EXCEPT ![t] = "form"]
    /\ unique_filename' = [unique_filename EXCEPT ![t] = NoName]
    /\ outcome' = [outcome EXCEPT ![t] =
                      [NoOutcome EXCEPT !.response = "upload.html"]]
    /\ UNCHANGED <<sleep_until, uploads, now, served>>
    /\ UNCHANGED pvars

\* A POST arrives at a free thread.
Receive(t) ==
    /\ pc[t] \in Terminal \cup {"idle"}
    /\ nreq < MaxRequests
    /\ \E r \in PostRequests :
          req' = [req EXCEPT ![t] =
                     [id |-> nreq + 1, method |-> r.method,
                      has_file |-> r.has_file, filename |-> r.filename,
                      content |-> r.content]]
    /\ nreq' = nreq + 1
    /\ pc' = [pc EXCEPT ![t] = "validating"]
    /\ unique_filename' = [unique_filename EXCEPT ![t] = NoName]
    /\ outcome' = [outcome EXCEPT ![t] = NoOutcome]
    /\ UNCHANGED <<sleep_until, uploads, now, served>>
    /\ UNCHANGED pvars

\* Lines 116-132 and 162-164: the checks, then the stored name.
Validate(t) ==
    /\ pc[t] = "validating"
    /\ IF ~req[t].has_file
       THEN /\ outcome' = [outcome EXCEPT ![t] =
                  redirect("error", <<"Please select a file first">>)]
            /\ pc' = [pc EXCEPT ![t] = "render_error"]
            /\ UNCHANGED unique_filename
       ELSE IF req[t].filename = <<>>
       THEN /\ outcome' = [outcome EXCEPT ![t] =
                  redirect("error", <<"Please select a file">>)]
            /\ pc' = [pc EXCEPT ![t] = "render_error"]
            /\ UNCHANGED unique_filename
       ELSE IF allowed_file(req[t].filename)
       THEN /\ unique_filename' = [unique_filename EXCEPT ![t] =
                  make_unique_filename(strftime(now),
                                       secure_filename(req[t].filename))]
            /\ pc' = [pc EXCEPT ![t] = "storing"]
            /\ UNCHANGED outcome
       ELSE /\ outcome' = [outcome EXCEPT ![t] = redirect("error",
                  <<"Invalid file type. Please use JPG, PNG, or JPEG images.">>)]
            /\ pc' = [pc EXCEPT ![t] = "render_error"]
            /\ UNCHANGED unique_filename
    /\ UNCHANGED <<req, sleep_until, uploads, now, served, nreq>>
    /\ UNCHANGED pvars

\* Lines 135-142: os.makedirs and file.save, either of which may raise
\* OSError; a write that fails leaves the entry it opened, truncated.  Then
\* predict_disease is entered and sleeps one second (line 76).
Store(t) ==
    /\ pc[t] = "storing"
    /\ \E e \in {"ok", "makedirs failed", "write failed"} :
          IF e = "ok"
          THEN /\ uploads' = write_file(uploads, unique_filename[t],
                                        req[t].content)
               /\ pc' = [pc EXCEPT ![t] = "predicting"]
               /\ sleep_until' = [sleep_until EXCEPT ![t] =
                                     now + TicksPerSecond]
               /\ UNCHANGED outcome
          ELSE /\ uploads' = IF e = "write failed"
                             THEN write_file(uploads, unique_filename[t],
                                             Undecodable("truncated"))
                             ELSE uploads
               /\ outcome' = [outcome EXCEPT ![t] = on_exception(e)]
               /\ pc' = [pc EXCEPT ![t] =
                            IF on_exception(e).response = "redirect"
                            THEN "render_error" ELSE "unhandled"]
               /\ UNCHANGED sleep_until
    /\ UNCHANGED <<req, unique_filename, now, served, nreq>>
    /\ UNCHANGED pvars

\* Lines 142-157: the sleep is over, the stored file is analysed and the
\* result rendered.
Predict(t) ==
    /\ pc[t] = "predicting"
    /\ now >= sleep_until[t]
    /\ \E prediction_result \in predict_disease(uploads[unique_filename[t]]) :
          IF prediction_result.success
          THEN /\ outcome' = [outcome EXCEPT ![t] =
                      render_result(unique_filename[t], prediction_result)]
               /\ pc' = [pc EXCEPT ![t] = "render_success"]
               /\ served' = served \cup
                      {[id |-> req[t].id, filename |-> req[t].filename,
                        stored |-> unique_filename[t],
                        content |-> req[t].content]}
          ELSE /\ outcome' = [outcome EXCEPT ![t] = redirect("error",
                      <<"Analysis failed. Please try another image.">>)]
               /\ pc' = [pc EXCEPT ![t] = "render_error"]
               /\ UNCHANGED served
    /\ UNCHANGED <<req, unique_filename, sleep_until, uploads, now, nreq>>
    /\ UNCHANGED pvars

\* The wall clock advances.
Tick ==
    /\ now < MaxClock
    /\ now' = now + 1
    /\ UNCHANGED <<pc, req, unique_filename, sleep_until, outcome, uploads,
                   served, nreq>>
    /\ UNCHANGED pvars

Init == PInit /\ HInit /\ image = Undecodable("missing")

Next ==
    \/ \E t \in Threads : Get(t)
    \/ \E t \in Threads : Receive(t)
    \/ \E t \in Threads : Validate(t)
    \/ \E t \in Threads : Store(t)
    \/ \E t \in Threads : Predict(t)
    \/ Tick

Spec == Init /\ [][Next]_vars

(***************************************************************************)
(*                              Properties                                 *)
(***************************************************************************)

\* ------------------------------------------------------------------ C1
\* C1: any two successful uploads of the same original filename, sequential
\* or concurrent, have different stored names, and every stored file holds
\* exactly the bytes of the upload that created it.
C1_StoredNamesUnique ==
    /\ \A a \in served : \A b \in served :
          (a.id # b.id /\ a.filename = b.filename) => a.stored # b.stored
    /\ \A a \in served : uploads[a.stored] = a.content

\* ------------------------------------------------------------------ C2
\* A filename has an extension of the allowed set, compared without regard
\* to case: after its last "." comes one of png, jpg, jpeg, gif, bmp.
HasAllowedExtension(filename) ==
    \E i \in 1..Len(filename) :
       /\ filename[i] = "."
       /\ \A j \in (i + 1)..Len(filename) : filename[j] # "."
       /\ \E ext \in ALLOWED_EXTENSIONS :
             lower(SubSeq(filename, i + 1, Len(filename))) = lower(ext)

Rejected(r) ==
    /\ r.method = "POST"
    /\ \/ ~r.has_file
       \/ r.filename = <<>>
       \/ ~HasAllowedExtension(r.filename)

\* C2: a POST with no file part, an empty filename or no allowed extension
\* ends in the rendering-error outcome (an error flash and a redirect); it
\* never reaches storing or predicting, and the step that rejects it leaves
\* the upload directory as it was.
C2_RejectedUploadWritesNothing ==
    [][\A t \in Threads :
          (Rejected(req[t]) /\ req'[t] = req[t]) =>
             /\ pc'[t] \in {"validating", "render_error"}
             /\ unique_filename'[t] = NoName
             /\ pc'[t] # pc[t] =>
                   /\ pc'[t] = "render_error"
                   /\ outcome'[t].response = "redirect"
                   /\ outcome'[t].category = "error"
                   /\ uploads' = uploads
                   /\ served' = served]_vars

C2_Witness ==
    \E t \in Threads :
       /\ pc[t] = "render_error"
       /\ req[t].filename = <<"a", ".", "p", "n", "g", ".", "e">>
       /\ DOMAIN uploads # {}

\* ------------------------------------------------------------------ C3
Alternatives(result) ==
    {result.all_predictions[i] : i \in 2..Len(result.all_predictions)}

Succeeded == ppc = "returned" /\ return_value.success

\* C3 as stated: primary confidence in [0.70, 0.95), every alternative's
\* confidence at least 0.10 and strictly below primary - 0.20.
C3_HalfOpenIntervals ==
    Succeeded =>
       LET primary == return_value.primary_prediction.confidence
       IN  /\ Literal(7, 10) <= primary /\ primary < Literal(95, 100)
           /\ \A alt \in Alternatives(return_value) :
                 /\ Literal(1, 10) <= alt.confidence
                 /\ alt.confidence < FSub(primary, Literal(2, 10))

\* C3 amended: primary confidence in [0.70, 0.95], every alternative's
\* confidence at least 0.10 and at most primary - 0.20 (random.uniform can
\* return its upper end-point), so no alternative's confidence reaches the
\* primary's.
C3_ClosedIntervals ==
    Succeeded =>
       LET primary == return_value.primary_prediction.confidence
       IN  /\ Literal(7, 10) <= primary /\ primary <= Literal(95, 100)
           /\ \A alt \in Alternatives(return_value) :
                 /\ Literal(1, 10) <= alt.confidence
                 /\ alt.confidence <= FSub(primary, Literal(2, 10))
                 /\ alt.confidence < primary

C3_Witness ==
    /\ Succeeded
    /\ \E alt \in Alternatives(return_value) :
          alt.confidence =
             FSub(return_value.primary_prediction.confidence, Literal(2, 10))

\* ------------------------------------------------------------------ C4
\* C4: for every image path, also an unreadable, corrupt or missing one,
\* analyze_image returns without raising, and returns a class id in 0..7.
C4_AnalyzeReturnsClassId ==
    ppc = "analyzed" =>
       /\ ~analysis_raised
       /\ predicted_class \in 0..7
       /\ predicted_class \in DOMAIN DISEASE_CLASSES

C4_Witness ==
    /\ ppc = "analyzed"
    /\ image.kind = "corrupt"
    /\ ~analysis_raised
    /\ predicted_class = 7

\* ------------------------------------------------------------------ C5
\* C5: for a decoded image the rules apply in order: green > 150 and
\* red < 100 gives 0; else red > 150 and green < 100 gives 1; else blue < 50
\* and red > 180 gives 2; otherwise one of 0, 3, 4, 5, 6, 7.  So 1 and 2 are
\* returned only under their rule; (green 200, red 50, blue 80) gives 0 and
\* (red 200, green 50, blue 80) gives 1.
C5_RulesInOrder ==
    (ppc = "analyzed" /\ image.kind = "rgb" /\ ~analysis_raised) =>
       LET r == image.red
           g == image.green
           b == image.blue
           rule0 == g > 150 /\ r < 100
           rule1 == r > 150 /\ g < 100
           rule2 == b < 50 /\ r > 180
       IN  /\ rule0 => predicted_class = 0
           /\ (~rule0 /\ rule1) => predicted_class = 1
           /\ (~rule0 /\ ~rule1 /\ rule2) => predicted_class = 2
           /\ (~rule0 /\ ~rule1 /\ ~rule2) =>
                 predicted_class \in {0, 3, 4, 5, 6, 7}
           /\ predicted_class = 1 => rule1
           /\ predicted_class = 2 => rule2
           /\ (g = 200 /\ r = 50 /\ b = 80) => predicted_class = 0
           /\ (r = 200 /\ g = 50 /\ b = 80) => predicted_class = 1

\* An image both the second and the third rule accept: the second wins.
C5_Witness ==
    /\ ppc = "analyzed"
    /\ image = Rgb(200, 50, 0)
    /\ predicted_class = 1

\* ------------------------------------------------------------------ C6
\* C6: all_predictions is the primary prediction followed by at most 2
\* alternatives, never more than there are classes other than the primary,
\* and no alternative names the primary's class (two may name the same one).
C6_AlternativesShape ==
    Succeeded =>
       LET all == return_value.all_predictions
           primary == return_value.primary_prediction
           others == DOMAIN DISEASE_CLASSES \ {primary.class_id}
       IN  /\ Len(all) >= 1
           /\ all[1] = primary
           /\ Len(all) - 1 <= 2
           /\ Len(all) - 1 <= Cardinality(others)
           /\ \A i \in 2..Len(all) : all[i].class_id \in others

C6_Witness ==
    /\ Succeeded
    /\ Len(return_value.all_predictions) = 3
    /\ return_value.all_predictions[2].class_id =
          return_value.all_predictions[3].class_id

\* ------------------------------------------------------------------ C7
\* C7: predict_disease returns success=true for every image path, readable
\* or not; so a request that leaves the predicting state leaves it for
\* rendering success, never for rendering error.
C7_PredictingEndsInSuccess ==
    [][\A t \in Threads :
          (pc[t] = "predicting" /\ pc'[t] # pc[t]) =>
             /\ pc'[t] = "render_success"
             /\ outcome'[t].success
             /\ outcome'[t].class_id \in DOMAIN DISEASE_CLASSES]_vars

C7_Witness ==
    \E t \in Threads :
       /\ pc[t] = "render_success"
       /\ uploads[unique_filename[t]].kind # "rgb"

\* ------------------------------------------------------------------ C8
Rank(state) ==
    CASE state = "validating" -> 1
      [] state = "storing" -> 2
      [] state = "predicting" -> 3
      [] state \in {"render_success", "render_error"} -> 4
      [] OTHER -> 0

\* C8: a POST moves only forward through validating, storing, predicting and
\* ends in rendering success or rendering error; rendering success is
\* entered only from predicting, with the file written, the prediction
\* successful, and the image path naming the file this request stored.
C8_ForwardOnly ==
    [][\A t \in Threads :
          (req'[t] = req[t] /\ req[t].method = "POST" /\ pc'[t] # pc[t]) =>
             /\ Rank(pc[t]) \in 1..3
             /\ Rank(pc'[t]) > Rank(pc[t])
             /\ pc'[t] = "render_success" =>
                   /\ pc[t] = "predicting"
                   /\ unique_filename[t] \in DOMAIN uploads
                   /\ unique_filename[t] =
                         make_unique_filename(
                            unique_filename[t][1],
                            secure_filename(req[t].filename))
                   /\ outcome'[t].success
                   /\ outcome'[t].response = "result.html"
                   /\ outcome'[t].image_path =
                         <<"/static/uploads/">> \o unique_filename[t]]_vars

C8_Witness ==
    \E t \in Threads :
       /\ pc[t] = "render_success"
       /\ req[t].filename = <<"/", "a", ".", "p", "n", "g">>
       /\ outcome[t].image_path =
             <<"/static/uploads/", 1, "_", "a", ".", "p", "n", "g">>

\* ------------------------------------------------------------------ C9
\* C9: when os.makedirs or file.save fails, the handler catches it: the
\* request ends in rendering error with a message that carries the failure,
\* no prediction is made for it, and the thread goes on to serve requests
\* (no request ever ends outside the handler's own outcomes).
C9_StorageFailureHandled ==
    [][\A t \in Threads :
          /\ pc'[t] \in Terminal \cup
                {"idle", "validating", "storing", "predicting"}
          /\ (pc[t] = "storing" /\ pc'[t] \notin {"storing", "predicting"}) =>
                /\ pc'[t] = "render_error"
                /\ outcome'[t].response = "redirect"
                /\ outcome'[t].category = "error"
                /\ Len(outcome'[t].message) = 2
                /\ outcome'[t].message[1] = "Error processing file: "
                /\ outcome'[t].message[2] \in
                      {"makedirs failed", "write failed"}
                /\ ~outcome'[t].success
                /\ served' = served]_vars

\* A request served after another request's storage failure.
C9_Witness ==
    \E t \in Threads : \E u \in Threads :
       /\ pc[u] = "render_error"
       /\ outcome[u].message = <<"Error processing file: ", "write failed">>
       /\ pc[t] = "render_success"
       /\ req[t].id > req[u].id

\* ------------------------------------------------------------------ C10
ConfidenceDrawn == ppc = "loop" \/ Succeeded

\* C10 as stated: the upper bound of the alternative's interval,
\* primary - 0.20, is at least 0.50, so the interval is never empty.
C10_UpperBoundAtLeastHalf ==
    ConfidenceDrawn =>
       /\ alt_interval(confidence).hi >= Literal(5, 10)
       /\ alt_interval(confidence).hi > alt_interval(confidence).lo

\* C10 amended: the upper bound is at least 0.7 - 0.2 as floats compute it,
\* which is just below 0.50 (0.49999999999999994), and always above the
\* lower bound 0.10: the interval is never empty or inverted.
C10_UpperBoundAboveLower ==
    ConfidenceDrawn =>
       /\ alt_interval(confidence).hi >= FSub(Literal(7, 10), Literal(2, 10))
       /\ alt_interval(confidence).hi > alt_interval(confidence).lo
       /\ alt_interval(confidence).lo = Literal(1, 10)

C10_Witness ==
    /\ ppc = "loop"
    /\ confidence = Literal(7, 10)
    /\ alt_interval(confidence).hi < Literal(5, 10)

=============================================================================
